---- MODULE Spec2Model ----
(***************************************************************************)
(* express-async-rate-cache: the LRU/TTL cache (LRUCache), the dual-window *)
(* rate limiter (RateLimiter) and the coalescing fetch queue               *)
(* (DatabaseService) with the GET /users/:id route that ties them.         *)
(*                                                                         *)
(* Node runs every handler to completion on one thread: a handler, a timer *)
(* callback or a promise continuation is one atomic action.  Promise       *)
(* continuations (microtasks) run before the next handler or timer.        *)
(***************************************************************************)
EXTENDS Integers, Sequences, FiniteSets, TLC

VARIABLES
    now,               \* Date.now(), milliseconds
    cache,             \* LRUCache.cache: the Map, as its entries in iteration order
    stats,             \* LRUCache.stats
    cacheRet,          \* the last LRUCache call, its value argument, what it returned, the keys it removed
    clients,           \* RateLimiter.clients
    rlRet,             \* the last response of RateLimiter.middleware
    burstSeen,         \* per client: middleware calls since its burst window started
    denied,            \* per client and gate: its last 429, and whether a request passed since
    unswept,           \* RateLimiter.clients as it would be had cleanupExpired never run
    processingQueue,   \* DatabaseService.processingQueue
    pendingRequests,   \* DatabaseService.pendingRequests
    isProcessing,      \* DatabaseService.isProcessing
    inFlight,          \* the jobs processJob is awaiting the database delay for, oldest first
    microtasks,        \* promise continuations not yet run, in order
    outcome,           \* per request id: what its getUserById promise settled to, whether
                       \* its handler has resumed and whether it called userCache.set
    nextJobId,         \* the id of the next request
    cycleOf,           \* per request id: the fetch cycle it is attached to
    cycleCount,        \* per user id: fetch cycles (pending groups) created
    dbCalls,           \* per user id: backend calls issued since its pending group was created
    dbCallsTotal       \* per user id: backend calls issued in all

cacheVars == <<cache, stats, cacheRet>>
rlVars    == <<clients, rlRet, burstSeen, denied, unswept>>
dbVars    == <<processingQueue, pendingRequests, isProcessing, inFlight, microtasks,
               outcome, nextJobId, cycleOf, cycleCount, dbCalls, dbCallsTotal>>
vars      == <<now, cacheVars, rlVars, dbVars>>

(***************************************************************************)
(* Bounds of the model.                                                    *)
(***************************************************************************)
MaxSize      == 2        \* the maxSize the cache is constructed with
MaxGets      == 2        \* get() calls explored (caps totalRequests, accessCount)
MaxCacheTime == 90000    \* the clock stops here in the cache specification
CacheSteps   == {30000}  \* clock advances explored in the cache specification
MaxRLTime    == 70000    \* the clock stops here in the rate limiter specification
RLSteps      == {5000}   \* clock advances explored in the rate limiter specification
MaxSeen      == 7        \* requests explored per client and burst window
MaxReads     == 4        \* GET /users/:id requests explored in the application specification
MaxAppTime   == 70000    \* the clock stops here in the application specification
AppSteps     == {70000}  \* clock advances explored in the application specification
MaxServerTime == 5000    \* the clock stops here in the server specification
MaxPairTime  == 10000    \* the clock stops here in the specification of two clients
PairSteps    == {10000}  \* clock advances explored in the specification of two clients
ServerSteps  == {5000}   \* clock advances explored in the server specification

(***************************************************************************)
(* Program constants.                                                      *)
(***************************************************************************)
Ttl == 60000

MaxRequests   == 10
WindowMs      == 60000
BurstCapacity == 5
BurstWindowMs == 10000

ClientIds == {"ip1"}
\* Two clients, for the specification of requests from both.
ClientPair == {"ip1", "ip2"}

\* The mock database, and the ids GET /users/:id is asked for.
mockUsers == (1 :> "u1") @@ (2 :> "u2") @@ (3 :> "u3")
UserIds   == {1, 2, 999}

\* The ids the requests through the limiter ask for.
ServerUserIds == {1, 999}

CacheKeys   == {"", "a", "b"}
CacheValues == {"u1", "u2"}
Null        == "null"
NoKeys      == <<>>

(***************************************************************************)
(* LRUCache                                                                *)
(***************************************************************************)
\* A JavaScript Map as the sequence of its entries in insertion order.
MapHas(m, k) == \E i \in 1..Len(m) : m[i].key = k

MapGet(m, k) == m[CHOOSE i \in 1..Len(m) : m[i].key = k]

MapDelete(m, k) == SelectSeq(m, LAMBDA e : e.key # k)

\* Map.keys(), in insertion order.
KeysOf(m) == [i \in 1..Len(m) |-> m[i].key]

\* Map.set: an existing key keeps its place, a new key goes last.
MapSet(m, k, e) ==
    IF MapHas(m, k)
    THEN [i \in 1..Len(m) |-> IF m[i].key = k THEN e ELSE m[i]]
    ELSE Append(m, e)

\* if (firstKey): undefined and the empty string are falsy.
Truthy(k) == k # ""

\* now - entry.timestamp > this.ttl
IsExpiredOnBoundary(e, t) == t - e.timestamp >= Ttl
IsExpired(e, t) == t - e.timestamp > Ttl

NewEntry(k, v, t) ==
    [key |-> k, value |-> v, timestamp |-> t, accessCount |-> 1, lastAccessed |-> t]

CacheGetMissUncounted(k) ==
    /\ ~MapHas(cache, k)
    /\ stats' = [stats EXCEPT !.totalRequests = @ + 1]
    /\ cache' = cache
    /\ cacheRet' = [op |-> "get", key |-> k, value |-> Null, ret |-> Null, evicted |-> NoKeys]

CacheGetMiss(k) ==
    /\ ~MapHas(cache, k)
    /\ stats' = [stats EXCEPT !.totalRequests = @ + 1, !.misses = @ + 1]
    /\ cache' = cache
    /\ cacheRet' = [op |-> "get", key |-> k, value |-> Null, ret |-> Null, evicted |-> NoKeys]

CacheGetExpiredKeepSize(k) ==
    /\ MapHas(cache, k)
    /\ IsExpired(MapGet(cache, k), now)
    /\ cache' = MapDelete(cache, k)
    /\ stats' = [stats EXCEPT !.totalRequests = @ + 1, !.misses = @ + 1]
    /\ cacheRet' = [op |-> "get", key |-> k, value |-> Null, ret |-> Null, evicted |-> <<k>>]

CacheGetExpired(k) ==
    /\ MapHas(cache, k)
    /\ IsExpired(MapGet(cache, k), now)
    /\ cache' = MapDelete(cache, k)
    /\ stats' = [stats EXCEPT !.totalRequests = @ + 1, !.misses = @ + 1,
                              !.currentSize = @ - 1]
    /\ cacheRet' = [op |-> "get", key |-> k, value |-> Null, ret |-> Null, evicted |-> <<k>>]

\* A hit that updates the entry where it is, without delete and set.
CacheGetHitInPlace(k) ==
    /\ MapHas(cache, k)
    /\ ~IsExpired(MapGet(cache, k), now)
    /\ LET entry == [MapGet(cache, k) EXCEPT !.lastAccessed = now,
                                             !.accessCount = @ + 1]
       IN  /\ cache' = MapSet(cache, k, entry)
           /\ cacheRet' = [op |-> "get", key |-> k, value |-> Null, ret |-> entry.value,
                           evicted |-> NoKeys]
    /\ stats' = [stats EXCEPT !.totalRequests = @ + 1, !.hits = @ + 1]

CacheGetHit(k) ==
    /\ MapHas(cache, k)
    /\ ~IsExpired(MapGet(cache, k), now)
    /\ LET entry == [MapGet(cache, k) EXCEPT !.lastAccessed = now,
                                             !.accessCount = @ + 1]
       IN  /\ cache' = MapSet(MapDelete(cache, k), k, entry)
           /\ cacheRet' = [op |-> "get", key |-> k, value |-> Null, ret |-> entry.value,
                           evicted |-> NoKeys]
    /\ stats' = [stats EXCEPT !.totalRequests = @ + 1, !.hits = @ + 1]

CacheGet(k) == CacheGetMiss(k) \/ CacheGetExpired(k) \/ CacheGetHit(k)

\* The entries left after set() has made room for a new key.
EvictFirst(m) ==
    IF Len(m) >= MaxSize /\ Len(m) > 0 /\ Truthy(m[1].key) THEN Tail(m) ELSE m

\* A set that overwrites an existing key where it is, without the delete.
CacheSetInPlace(k, v) ==
    LET entry == NewEntry(k, v, now) IN
    IF MapHas(cache, k)
    THEN /\ cache' = MapSet(cache, k, entry)
         /\ stats' = stats
         /\ cacheRet' = [op |-> "set", key |-> k, value |-> v, ret |-> Null, evicted |-> NoKeys]
    ELSE LET kept == EvictFirst(cache) IN
         /\ cache' = MapSet(kept, k, entry)
         /\ stats' = [stats EXCEPT
                         !.currentSize = @ - (Len(cache) - Len(kept)) + 1]
         /\ cacheRet' = [op |-> "set", key |-> k, value |-> v, ret |-> Null,
                         evicted |-> IF Len(kept) < Len(cache)
                                     THEN <<cache[1].key>> ELSE NoKeys]

CacheSet(k, v) ==
    LET entry == NewEntry(k, v, now) IN
    IF MapHas(cache, k)
    THEN /\ cache' = MapSet(MapDelete(cache, k), k, entry)
         /\ stats' = stats
         /\ cacheRet' = [op |-> "set", key |-> k, value |-> v, ret |-> Null, evicted |-> NoKeys]
    ELSE LET kept == EvictFirst(cache) IN
         /\ cache' = MapSet(kept, k, entry)
         /\ stats' = [stats EXCEPT
                         !.currentSize = @ - (Len(cache) - Len(kept)) + 1]
         /\ cacheRet' = [op |-> "set", key |-> k, value |-> v, ret |-> Null,
                         evicted |-> IF Len(kept) < Len(cache)
                                     THEN <<cache[1].key>> ELSE NoKeys]

\* A delete that counts down whether or not the map held the key.
CacheDeleteAlwaysCounting(k) ==
    /\ cache' = MapDelete(cache, k)
    /\ stats' = [stats EXCEPT !.currentSize = @ - 1]
    /\ cacheRet' = [op |-> "delete", key |-> k, value |-> Null,
                    ret |-> IF MapHas(cache, k) THEN "true" ELSE "false",
                    evicted |-> IF MapHas(cache, k) THEN <<k>> ELSE NoKeys]

CacheDelete(k) ==
    /\ cache' = MapDelete(cache, k)
    /\ stats' = IF MapHas(cache, k)
                THEN [stats EXCEPT !.currentSize = @ - 1] ELSE stats
    /\ cacheRet' = [op |-> "delete", key |-> k, value |-> Null,
                    ret |-> IF MapHas(cache, k) THEN "true" ELSE "false",
                    evicted |-> IF MapHas(cache, k) THEN <<k>> ELSE NoKeys]

CacheClearKeepStats ==
    /\ cache' = <<>>
    /\ stats' = [stats EXCEPT !.currentSize = 0]
    /\ cacheRet' = [op |-> "clear", key |-> "", value |-> Null, ret |-> Null, evicted |-> KeysOf(cache)]

CacheClear ==
    /\ cache' = <<>>
    /\ stats' = [hits |-> 0, misses |-> 0, currentSize |-> 0, totalRequests |-> 0]
    /\ cacheRet' = [op |-> "clear", key |-> "", value |-> Null, ret |-> Null, evicted |-> KeysOf(cache)]

\* has() written as a get() that drops the value: it refreshes the entry.
CacheHasRefreshing(k) ==
    IF ~MapHas(cache, k)
    THEN /\ UNCHANGED <<cache, stats>>
         /\ cacheRet' = [op |-> "has", key |-> k, value |-> Null, ret |-> "false", evicted |-> NoKeys]
    ELSE IF IsExpired(MapGet(cache, k), now)
    THEN /\ cache' = MapDelete(cache, k)
         /\ stats' = [stats EXCEPT !.currentSize = @ - 1]
         /\ cacheRet' = [op |-> "has", key |-> k, value |-> Null, ret |-> "false", evicted |-> <<k>>]
    ELSE /\ cache' = MapSet(MapDelete(cache, k), k,
                            [MapGet(cache, k) EXCEPT !.lastAccessed = now])
         /\ stats' = stats
         /\ cacheRet' = [op |-> "has", key |-> k, value |-> Null, ret |-> "true", evicted |-> NoKeys]

CacheHas(k) ==
    IF ~MapHas(cache, k)
    THEN /\ UNCHANGED <<cache, stats>>
         /\ cacheRet' = [op |-> "has", key |-> k, value |-> Null, ret |-> "false", evicted |-> NoKeys]
    ELSE IF IsExpired(MapGet(cache, k), now)
    THEN /\ cache' = MapDelete(cache, k)
         /\ stats' = [stats EXCEPT !.currentSize = @ - 1]
         /\ cacheRet' = [op |-> "has", key |-> k, value |-> Null, ret |-> "false", evicted |-> <<k>>]
    ELSE /\ UNCHANGED <<cache, stats>>
         /\ cacheRet' = [op |-> "has", key |-> k, value |-> Null, ret |-> "true", evicted |-> NoKeys]

\* The 30 s setInterval of the constructor.
CacheCleanupKeepSize ==
    /\ cache' = SelectSeq(cache, LAMBDA e : ~IsExpired(e, now))
    /\ stats' = stats
    /\ cacheRet' = [op |-> "sweep", key |-> "", value |-> Null, ret |-> Null,
                    evicted |-> KeysOf(SelectSeq(cache, LAMBDA e : IsExpired(e, now)))]

CacheCleanupExpired ==
    LET kept == SelectSeq(cache, LAMBDA e : ~IsExpired(e, now)) IN
    /\ cache' = kept
    /\ stats' = [stats EXCEPT !.currentSize = @ - (Len(cache) - Len(kept))]
    /\ cacheRet' = [op |-> "sweep", key |-> "", value |-> Null, ret |-> Null,
                    evicted |-> KeysOf(SelectSeq(cache, LAMBDA e : IsExpired(e, now)))]

(***************************************************************************)
(* RateLimiter                                                             *)
(***************************************************************************)
\* Map.delete on a map kept as a function.
Without(f, k) == [x \in DOMAIN f \ {k} |-> f[x]]

\* Math.ceil(ms / 1000) for the integers the limiter divides.
CeilSeconds(ms) == IF ms >= 0 THEN (ms + 999) \div 1000 ELSE -((-ms) \div 1000)

\* The state a first request creates.
FreshInfo(t) ==
    [count |-> 0, resetTime |-> t + WindowMs,
     burstCount |-> 0, burstResetTime |-> t + BurstWindowMs]

\* Reset counters if windows have expired.
ResetWindow(info, t) ==
    IF t >= info.resetTime
    THEN [info EXCEPT !.count = 0, !.resetTime = t + WindowMs]
    ELSE info

ResetBurstKeepCount(info, t) ==
    IF t >= info.burstResetTime
    THEN [info EXCEPT !.burstResetTime = t + BurstWindowMs]
    ELSE info
ResetBurst(info, t) ==
    IF t >= info.burstResetTime
    THEN [info EXCEPT !.burstCount = 0, !.burstResetTime = t + BurstWindowMs]
    ELSE info

BurstExceededStrictly(info) == info.burstCount > BurstCapacity
BurstExceeded(info) == info.burstCount >= BurstCapacity

WindowExceededStrictly(info) == info.count > MaxRequests
WindowExceeded(info) == info.count >= MaxRequests

\* Which gate answers: the burst limit is checked first.
DecideWindowFirst(info) ==
    IF WindowExceeded(info) THEN "window"
    ELSE IF BurstExceeded(info) THEN "burst"
    ELSE "allow"
Decide(info) ==
    IF BurstExceeded(info) THEN "burst"
    ELSE IF WindowExceeded(info) THEN "window"
    ELSE "allow"

\* clientInfo.count++; clientInfo.burstCount++
CountedWindowOnly(info) == [info EXCEPT !.count = @ + 1]
Counted(info) == [info EXCEPT !.count = @ + 1, !.burstCount = @ + 1]

\* getClientId(req): the key of the client's state in this.clients.
GetClientIdShared(c) == "ip1"
GetClientId(c) == c

\* The middleware on the map cl for the client key id at time t: the state it
\* leaves for id and the response it gives.
Checked(cl, id, t) ==
    LET created == IF id \in DOMAIN cl THEN cl[id] ELSE FreshInfo(t)
        info    == ResetBurst(ResetWindow(created, t), t)
        verdict == Decide(info)
        counted == Counted(info)
    IN  CASE verdict = "burst" ->
               [info |-> info, verdict |-> verdict, status |-> 429,
                retryAfter |-> CeilSeconds(info.burstResetTime - t),
                limit |-> BurstCapacity, remaining |-> 0,
                resetTime |-> info.burstResetTime]
          [] verdict = "window" ->
               [info |-> info, verdict |-> verdict, status |-> 429,
                retryAfter |-> CeilSeconds(info.resetTime - t),
                limit |-> MaxRequests, remaining |-> 0,
                resetTime |-> info.resetTime]
          [] OTHER ->
               [info |-> counted, verdict |-> verdict, status |-> 200,
                retryAfter |-> 0,
                limit |-> MaxRequests,
                remaining |-> MaxRequests - counted.count,
                resetTime |-> counted.resetTime]

\* The middleware: one request of client c.
RateLimit(c) ==
    LET id      == GetClientId(c)
        known   == id \in DOMAIN clients
        newBurst == ~known \/ now >= clients[id].burstResetTime
        seen    == (IF newBurst THEN 0 ELSE burstSeen[id]) + 1
        r       == Checked(clients, id, now)
    IN  /\ seen <= MaxSeen
        /\ burstSeen' = (id :> seen) @@ burstSeen
        /\ denied' =
              IF r.verdict = "allow"
              THEN [k \in DOMAIN denied |->
                       IF k[1] = id THEN [denied[k] EXCEPT !.passedSince = TRUE]
                       ELSE denied[k]]
              ELSE (<<id, r.verdict>> :>
                       [timestamp |-> now,
                        retryAfter |-> r.retryAfter,
                        passedSince |-> FALSE]) @@ denied
        /\ clients' = (id :> r.info) @@ clients
        /\ unswept' = (id :> Checked(unswept, id, now).info) @@ unswept
        /\ rlRet' = [client |-> c, known |-> known, status |-> r.status,
                     scope |-> IF r.verdict = "allow" THEN "none" ELSE r.verdict,
                     retryAfter |-> r.retryAfter,
                     limit |-> r.limit, remaining |-> r.remaining,
                     resetTime |-> r.resetTime,
                     timestamp |-> now, nth |-> seen]

\* After a 429 the middleware returns; otherwise it calls next().
NextAlways(status) == TRUE
NextCalled(status) == status = 200

\* The 60 s setInterval of the constructor.
\* keysToDelete: the clients past both reset times.
PastEitherReset(cl, t) ==
    {c \in DOMAIN cl : t >= cl[c].resetTime \/ t >= cl[c].burstResetTime}
PastBothResets(cl, t) ==
    {c \in DOMAIN cl : t >= cl[c].resetTime /\ t >= cl[c].burstResetTime}

RateLimitCleanupExpired ==
    LET gone == PastBothResets(clients, now)
    IN  /\ clients' = [c \in DOMAIN clients \ gone |-> clients[c]]
        /\ burstSeen' = [c \in DOMAIN burstSeen \ gone |-> burstSeen[c]]
        /\ denied' = denied
        /\ unswept' = unswept
        /\ rlRet' = rlRet

(***************************************************************************)
(* DatabaseService                                                         *)
(***************************************************************************)
\* const cacheKey = `user:${userId}`
CacheKeyOf(userId) == "user:" \o ToString(userId)

\* new Error(`User with ID ${userId} not found`)
NotFoundError(userId) == "User with ID " \o ToString(userId) \o " not found"

QueueHas(q, userId) == \E i \in 1..Len(q) : q[i].userId = userId

\* getUserById: what becomes of pendingRequests and processingQueue.
AttachAndEnqueue(q, pending, job) == Append(q, job)
Enqueue(q, pending, job) ==
    IF job.userId \in DOMAIN pending THEN q ELSE Append(q, job)

Attach(pending, job) ==
    IF job.userId \in DOMAIN pending
    THEN [pending EXCEPT ![job.userId] = Append(@, job)]
    ELSE (job.userId :> <<job>>) @@ pending

GetUserById(userId) ==
    LET job   == [id |-> nextJobId, userId |-> userId]
        fresh == userId \notin DOMAIN pendingRequests
        cycle == IF fresh THEN
                    (IF userId \in DOMAIN cycleCount THEN cycleCount[userId] ELSE 0) + 1
                 ELSE cycleCount[userId]
    IN  /\ pendingRequests' = Attach(pendingRequests, job)
        /\ processingQueue' = Enqueue(processingQueue, pendingRequests, job)
        /\ nextJobId' = nextJobId + 1
        /\ outcome' = (job.id :> [status |-> "pending", value |-> Null,
                                  answered |-> FALSE, stored |-> FALSE]) @@ outcome
        /\ cycleOf' = (job.id :> [userId |-> userId, cycle |-> cycle,
                                  late |-> (\E i \in 1..Len(inFlight) :
                                               inFlight[i].userId = userId)])
                      @@ cycleOf
        /\ cycleCount' = (userId :> cycle) @@ cycleCount
        /\ dbCalls' = IF fresh THEN (userId :> 0) @@ dbCalls ELSE dbCalls
        /\ UNCHANGED <<isProcessing, inFlight, microtasks, dbCallsTotal>>

\* The 50 ms setInterval callback of processQueue, up to the await in processJob.
\* (With isProcessing set or an empty queue it returns at once.)
\* this.processingQueue.shift(): the job taken and the queue left.
Pop(q) == [job |-> q[Len(q)], rest |-> SubSeq(q, 1, Len(q) - 1)]
Shift(q) == [job |-> Head(q), rest |-> Tail(q)]

WorkerIdleAlways(busy) == TRUE
WorkerIdle(busy) == ~busy

ProcessQueueTick ==
    /\ WorkerIdle(isProcessing)
    /\ Len(processingQueue) > 0
    /\ isProcessing' = TRUE
    /\ LET job == Shift(processingQueue).job IN
          \* processJob(job) runs until its 200 ms timer is armed
          /\ inFlight' = Append(inFlight, job)
          /\ dbCalls' = [dbCalls EXCEPT ![job.userId] = @ + 1]
          /\ dbCallsTotal' =
               (job.userId :> (IF job.userId \in DOMAIN dbCallsTotal
                               THEN dbCallsTotal[job.userId] ELSE 0) + 1) @@ dbCallsTotal
    /\ processingQueue' = Shift(processingQueue).rest
    /\ UNCHANGED <<pendingRequests, microtasks, outcome, nextJobId, cycleOf, cycleCount>>

\* resolveAllPendingRequests / rejectAllPendingRequests: the jobs they settle,
\* in the order pendingJobs.forEach visits them.
SettledReversed(pending, userId) ==
    IF userId \in DOMAIN pending
    THEN [i \in 1..Len(pending[userId]) |->
             pending[userId][Len(pending[userId]) + 1 - i]]
    ELSE <<>>
SettledHeadOnly(pending, userId) ==
    IF userId \in DOMAIN pending THEN <<Head(pending[userId])>> ELSE <<>>
Settled(pending, userId) ==
    IF userId \in DOMAIN pending THEN pending[userId] ELSE <<>>

\* this.pendingRequests.delete(userId)
KeepGroup(pending, userId) == pending
DeleteAllGroups(pending, userId) == <<>>
DeleteGroup(pending, userId) == Without(pending, userId)

\* The 200 ms database delay of processJob elapses: processJob looks the user
\* up and settles every pending request of that user, then returns.
ProcessJobDone ==
    /\ inFlight # <<>>
    /\ LET userId == inFlight[1].userId
           found  == userId \in DOMAIN mockUsers
           jobs   == Settled(pendingRequests, userId)
           ids    == {jobs[i].id : i \in 1..Len(jobs)}
           result == IF found
                     THEN [status |-> "resolved", value |-> mockUsers[userId],
                           answered |-> FALSE, stored |-> FALSE]
                     ELSE [status |-> "rejected", value |-> NotFoundError(userId),
                           answered |-> FALSE, stored |-> FALSE]
       IN  /\ outcome' = [w \in DOMAIN outcome |->
                             IF w \in ids THEN result ELSE outcome[w]]
           /\ pendingRequests' = DeleteGroup(pendingRequests, userId)
           \* the reactions of the settled promises, then the await of processQueue
           /\ microtasks' = [i \in 1..Len(jobs) |-> [kind |-> "settled", job |-> jobs[i]]]
                            \o <<[kind |-> "finally", job |-> inFlight[1]]>>
    /\ inFlight' = Tail(inFlight)
    /\ UNCHANGED <<processingQueue, isProcessing, nextJobId, cycleOf, cycleCount,
                   dbCalls, dbCallsTotal>>

\* finally { this.isProcessing = false }
FinallyKeepBusy(busy) == busy
Finally(busy) == FALSE

\* getQueueStats(): Array.from(pendingRequests.values()).reduce(sum + length)
RECURSIVE TotalPending(_, _)
TotalPending(pending, keys) ==
    IF keys = {} THEN 0
    ELSE LET k == CHOOSE x \in keys : TRUE
         IN  Len(pending[k]) + TotalPending(pending, keys \ {k})

QueueStats ==
    [queueLength          |-> Len(processingQueue),
     pendingRequestGroups |-> Cardinality(DOMAIN pendingRequests),
     totalPendingRequests |-> TotalPending(pendingRequests, DOMAIN pendingRequests),
     isProcessing         |-> isProcessing]

(***************************************************************************)
(* GET /users/:id                                                          *)
(***************************************************************************)
\* The handler without its early return on a cache hit.
GetUserAlwaysFetch(userId) ==
    /\ microtasks = <<>>
    /\ CacheGet(CacheKeyOf(userId))
    /\ GetUserById(userId)

\* The handler up to its await: the cache first, the database on a miss.
GetUser(userId) ==
    /\ microtasks = <<>>
    /\ CacheGet(CacheKeyOf(userId))
    /\ IF cacheRet'.ret # Null
       THEN UNCHANGED dbVars
       ELSE GetUserById(userId)

\* userCache.set(cacheKey, user) follows the await; a rejection skips it.
StoresNever(status) == FALSE
StoresUser(status) == status = "resolved"

\* The next promise continuation runs.
RunMicrotask ==
    /\ microtasks # <<>>
    /\ LET task == Head(microtasks)
           rest == Tail(microtasks)
       IN  CASE task.kind = "settled" ->
                  \* the promise the async getUserById returned follows the settled one
                  /\ microtasks' = Append(rest, [kind |-> "continue", job |-> task.job])
                  /\ UNCHANGED <<cacheVars, isProcessing, outcome>>
             [] task.kind = "finally" ->
                  /\ isProcessing' = Finally(isProcessing)
                  /\ microtasks' = rest
                  /\ UNCHANGED <<cacheVars, outcome>>
             [] OTHER ->
                  \* the handler resumes after await dbService.getUserById(userId)
                  /\ microtasks' = rest
                  /\ outcome' = [outcome EXCEPT
                                    ![task.job.id].answered = TRUE,
                                    ![task.job.id].stored =
                                       StoresUser(outcome[task.job.id].status)]
                  /\ isProcessing' = isProcessing
                  /\ IF StoresUser(outcome[task.job.id].status)
                     THEN CacheSet(CacheKeyOf(task.job.userId), outcome[task.job.id].value)
                     ELSE UNCHANGED cacheVars
    /\ UNCHANGED <<processingQueue, pendingRequests, inFlight, nextJobId, cycleOf,
                   cycleCount, dbCalls, dbCallsTotal>>

(***************************************************************************)
(* Initial state: the three services as index.ts constructs them.          *)
(***************************************************************************)
Init ==
    /\ now = 0
    /\ cache = <<>>
    /\ stats = [hits |-> 0, misses |-> 0, currentSize |-> 0, totalRequests |-> 0]
    /\ cacheRet = [op |-> "none", key |-> "", value |-> Null, ret |-> Null, evicted |-> NoKeys]
    /\ clients = <<>>
    /\ rlRet = [client |-> "", known |-> FALSE, status |-> 0, scope |-> "none", retryAfter |-> 0,
                limit |-> 0, remaining |-> 0, resetTime |-> 0, timestamp |-> 0,
                nth |-> 0]
    /\ burstSeen = <<>>
    /\ denied = <<>>
    /\ unswept = <<>>
    /\ processingQueue = <<>>
    /\ pendingRequests = <<>>
    /\ isProcessing = FALSE
    /\ inFlight = <<>>
    /\ microtasks = <<>>
    /\ outcome = <<>>
    /\ nextJobId = 1
    /\ cycleOf = <<>>
    /\ cycleCount = <<>>
    /\ dbCalls = <<>>
    /\ dbCallsTotal = <<>>

(***************************************************************************)
(* The cache alone, driven by every public call, the sweep and the clock.  *)
(***************************************************************************)
CacheGetCall == \E k \in CacheKeys :
    /\ stats.totalRequests < MaxGets
    /\ CacheGet(k)
    /\ UNCHANGED <<now, rlVars, dbVars>>

CacheSetCall == \E k \in CacheKeys, v \in CacheValues :
    /\ CacheSet(k, v)
    /\ UNCHANGED <<now, rlVars, dbVars>>

CacheDeleteCall == \E k \in CacheKeys :
    /\ CacheDelete(k)
    /\ UNCHANGED <<now, rlVars, dbVars>>

CacheClearCall == CacheClear /\ UNCHANGED <<now, rlVars, dbVars>>

CacheHasCall == \E k \in CacheKeys :
    /\ CacheHas(k)
    /\ UNCHANGED <<now, rlVars, dbVars>>

CacheSweep == CacheCleanupExpired /\ UNCHANGED <<now, rlVars, dbVars>>

CacheClock == \E d \in CacheSteps :
    /\ now + d <= MaxCacheTime
    /\ now' = now + d
    /\ UNCHANGED <<cacheVars, rlVars, dbVars>>

CacheNext ==
    \/ CacheGetCall
    \/ CacheSetCall
    \/ CacheDeleteCall
    \/ CacheClearCall
    \/ CacheHasCall
    \/ CacheSweep
    \/ CacheClock

SpecCache == Init /\ [][CacheNext]_vars

(***************************************************************************)
(* The rate limiter alone: requests of every client, the sweep, the clock. *)
(***************************************************************************)
RLRequest == \E c \in ClientIds :
    /\ RateLimit(c)
    /\ UNCHANGED <<now, cacheVars, dbVars>>

RLSweep == RateLimitCleanupExpired /\ UNCHANGED <<now, cacheVars, dbVars>>

RLClock == \E d \in RLSteps :
    /\ now + d <= MaxRLTime
    /\ now' = now + d
    /\ UNCHANGED <<cacheVars, rlVars, dbVars>>

RLNext == RLRequest \/ RLSweep \/ RLClock

SpecRL == Init /\ [][RLNext]_vars

(***************************************************************************)
(* The rate limiter with requests of two clients.                          *)
(***************************************************************************)
PairRequest == \E c \in ClientPair :
    /\ RateLimit(c)
    /\ UNCHANGED <<now, cacheVars, dbVars>>

PairClock == \E d \in PairSteps :
    /\ now + d <= MaxPairTime
    /\ now' = now + d
    /\ UNCHANGED <<cacheVars, rlVars, dbVars>>

PairNext == PairRequest \/ PairClock

SpecPair == Init /\ [][PairNext]_vars

(***************************************************************************)
(* The application: GET /users/:id requests against the cache and the      *)
(* database service, the queue worker, promise continuations, the clock.   *)
(* A request, a timer or the clock moves only when no continuation waits.  *)
(***************************************************************************)
AppRequest == \E userId \in UserIds :
    /\ stats.totalRequests < MaxReads
    /\ GetUser(userId)
    /\ UNCHANGED <<now, rlVars>>

AppWorkerTick ==
    /\ microtasks = <<>>
    /\ ProcessQueueTick
    /\ UNCHANGED <<now, cacheVars, rlVars>>

AppJobDone ==
    /\ microtasks = <<>>
    /\ ProcessJobDone
    /\ UNCHANGED <<now, cacheVars, rlVars>>

AppMicrotask == RunMicrotask /\ UNCHANGED <<now, rlVars>>

AppClock == \E d \in AppSteps :
    /\ microtasks = <<>>
    /\ now + d <= MaxAppTime
    /\ now' = now + d
    /\ UNCHANGED <<cacheVars, rlVars, dbVars>>

AppNext == AppRequest \/ AppWorkerTick \/ AppJobDone \/ AppMicrotask \/ AppClock

SpecApp == Init /\ [][AppNext]_vars

\* setInterval keeps firing, the database delay always elapses and Node
\* always drains its microtask queue.
SpecAppFair ==
    /\ SpecApp
    /\ WF_vars(AppWorkerTick)
    /\ WF_vars(AppJobDone)
    /\ WF_vars(AppMicrotask)

(***************************************************************************)
(* The server: app.use(rateLimiter.middleware()) in front of the routes    *)
(* GET /users/:id and DELETE /cache, with the worker and the continuations *)
(* of the application. The limiter itself bounds the requests let through. *)
(***************************************************************************)
ServerGetUser == \E c \in ClientIds : \E userId \in ServerUserIds :
    /\ microtasks = <<>>
    /\ RateLimit(c)
    /\ IF NextCalled(rlRet'.status)
       THEN GetUser(userId)
       ELSE UNCHANGED <<cacheVars, dbVars>>
    /\ UNCHANGED now

ServerClearCache == \E c \in ClientIds :
    /\ microtasks = <<>>
    /\ RateLimit(c)
    /\ IF NextCalled(rlRet'.status)
       THEN CacheClear
       ELSE UNCHANGED cacheVars
    /\ UNCHANGED <<now, dbVars>>

ServerClock == \E d \in ServerSteps :
    /\ microtasks = <<>>
    /\ now + d <= MaxServerTime
    /\ now' = now + d
    /\ UNCHANGED <<cacheVars, rlVars, dbVars>>

ServerNext ==
    \/ ServerGetUser \/ ServerClearCache
    \/ AppWorkerTick \/ AppJobDone \/ AppMicrotask
    \/ ServerClock

SpecServer == Init /\ [][ServerNext]_vars

(***************************************************************************)
(* Claims about the cache (checked under SpecCache).                       *)
(***************************************************************************)
MapKeys(m) == {m[i].key : i \in 1..Len(m)}

\* A step in which get(k) ran: only get() counts a request.
IsGetStep(k) ==
    /\ stats'.totalRequests = stats.totalRequests + 1
    /\ cacheRet'.op = "get"
    /\ cacheRet'.key = k

\* A step in which set(k, _) inserted a key the store did not hold.
IsSetNewStep(k) ==
    /\ cacheRet'.op = "set"
    /\ cacheRet'.key = k
    /\ ~MapHas(cache, k)
    /\ MapHas(cache', k)

\* C4: after every call, Stats().currentSize <= maxSize, for every key value.
C4_SizeWithinMax == stats.currentSize <= MaxSize

\* C5: a set() of a new key into a store holding maxSize entries evicts exactly
\* one entry, and that entry has the oldest lastAccessed of the entries held.
C5_EvictsLeastRecentlyUsed ==
    [][\A k \in CacheKeys :
         (IsSetNewStep(k) /\ Len(cache) = MaxSize) =>
            \E i \in 1..Len(cache) :
               /\ \A j \in 1..Len(cache) :
                     cache[i].lastAccessed <= cache[j].lastAccessed
               /\ MapKeys(cache') = (MapKeys(cache) \ {cache[i].key}) \cup {k}]_vars

\* C6 as stated: an entry inserted at T is a hit at every time < T + ttl and a
\* miss at every time >= T + ttl.
C6_MissFromTtlOn ==
    [][\A k \in CacheKeys :
         (IsGetStep(k) /\ MapHas(cache, k)) =>
            ((cacheRet'.ret # Null) <=> (now < MapGet(cache, k).timestamp + Ttl))]_vars

\* C6 amended: an entry inserted at T is a hit at every time <= T + ttl and a
\* miss at every time > T + ttl; a hit leaves the insertion time as it was.
C6_MissAfterTtl ==
    [][\A k \in CacheKeys :
         (IsGetStep(k) /\ MapHas(cache, k)) =>
            /\ (cacheRet'.ret # Null) <=> (now <= MapGet(cache, k).timestamp + Ttl)
            /\ (cacheRet'.ret # Null) =>
                  /\ MapHas(cache', k)
                  /\ MapGet(cache', k).timestamp = MapGet(cache, k).timestamp
                  /\ cacheRet'.ret = MapGet(cache, k).value
            /\ (cacheRet'.ret = Null) => ~MapHas(cache', k)]_vars

\* A get() that hit an entry already read once before, exactly ttl after its insertion.
C6_Witness ==
    /\ cacheRet.op = "get"
    /\ cacheRet.ret # Null
    /\ MapHas(cache, cacheRet.key)
    /\ now = MapGet(cache, cacheRet.key).timestamp + Ttl
    /\ MapGet(cache, cacheRet.key).lastAccessed = now
    /\ MapGet(cache, cacheRet.key).accessCount >= 3

(***************************************************************************)
(* Claims about the rate limiter (checked under SpecRL).                   *)
(***************************************************************************)
\* A step in which the middleware ran for client c: it starts a burst window
\* (which moves burstResetTime) or it is one more request of the running one.
IsRequestStep(c) ==
    /\ c \in DOMAIN clients'
    /\ \/ c \notin DOMAIN clients
       \/ clients'[c] # clients[c]
       \/ burstSeen'[c] # burstSeen[c]

\* The gates as a request of c finds them, before it resets or counts anything.
BurstOpen(c) ==
    \/ c \notin DOMAIN clients
    \/ now >= clients[c].burstResetTime
    \/ clients[c].burstCount < BurstCapacity

WindowOpen(c) ==
    \/ c \notin DOMAIN clients
    \/ now >= clients[c].resetTime
    \/ clients[c].count < MaxRequests

\* C7 as stated: in a burst window the first burstCapacity requests of a client
\* are allowed and every further one is denied with scope burst.
C7_FirstBurstCapacityAllowed ==
    rlRet.status # 0 =>
        /\ rlRet.nth <= BurstCapacity => rlRet.status = 200
        /\ rlRet.nth > BurstCapacity => (rlRet.status = 429 /\ rlRet.scope = "burst")

\* C7 amended: in a burst window a request is allowed while fewer than
\* burstCapacity requests were allowed in it and the long window is not
\* exhausted (then it is denied with scope window); once burstCapacity requests
\* were allowed in the burst window every further one is denied with scope burst.
C7_BurstGate ==
    [][\A c \in ClientIds :
         IsRequestStep(c) =>
            /\ ~BurstOpen(c) =>
                  /\ rlRet'.status = 429
                  /\ rlRet'.scope = "burst"
                  /\ rlRet'.limit = BurstCapacity
            /\ (BurstOpen(c) /\ WindowOpen(c)) => rlRet'.status = 200
            /\ (BurstOpen(c) /\ ~WindowOpen(c)) =>
                  (rlRet'.status = 429 /\ rlRet'.scope = "window")]_vars

\* The sixth request of a burst window, denied by the burst gate while the
\* long window is exhausted too.
C7_Witness ==
    /\ rlRet.status = 429
    /\ rlRet.scope = "burst"
    /\ rlRet.nth = BurstCapacity + 1
    /\ rlRet.timestamp = now
    /\ rlRet.client \in DOMAIN clients
    /\ clients[rlRet.client].burstCount = BurstCapacity
    /\ clients[rlRet.client].count = MaxRequests

\* C8 as stated: after maxRequests allowed requests in a long window the next
\* request in that window is denied with scope window.
C8_NextDeniedByWindow ==
    [][\A c \in ClientIds :
         (/\ IsRequestStep(c)
          /\ c \in DOMAIN clients
          /\ clients[c].count = MaxRequests
          /\ now < clients[c].resetTime) =>
            (rlRet'.status = 429 /\ rlRet'.scope = "window")]_vars

\* C8 amended: that request is denied; with scope window when the burst gate
\* is open at that request (the burst window has reset, or fewer than
\* burstCapacity requests were allowed in it), with scope burst otherwise.
C8_NextDenied ==
    [][\A c \in ClientIds :
         (/\ IsRequestStep(c)
          /\ c \in DOMAIN clients
          /\ clients[c].count = MaxRequests
          /\ now < clients[c].resetTime) =>
            /\ rlRet'.status = 429
            /\ rlRet'.remaining = 0
            /\ rlRet'.scope = (IF BurstOpen(c) THEN "window" ELSE "burst")
            /\ clients'[c].count = MaxRequests]_vars

\* The eleventh request of a long window, made when the burst window has just
\* reset, denied with scope window.
C8_Witness ==
    /\ rlRet.status = 429
    /\ rlRet.scope = "window"
    /\ rlRet.timestamp = now
    /\ rlRet.nth = 1
    /\ rlRet.client \in DOMAIN clients
    /\ clients[rlRet.client].count = MaxRequests
    /\ clients[rlRet.client].burstCount = 0
    /\ clients[rlRet.client].burstResetTime = now + BurstWindowMs
    /\ now < clients[rlRet.client].resetTime

\* C9: neither counter of any client ever exceeds its limit.
C9_CountersWithinLimits ==
    \A c \in DOMAIN clients :
        /\ clients[c].count <= MaxRequests
        /\ clients[c].burstCount <= BurstCapacity

\* Both counters at their limits, and a request just denied.
C9_Witness ==
    /\ rlRet.status = 429
    /\ rlRet.timestamp = now
    /\ rlRet.client \in DOMAIN clients
    /\ clients[rlRet.client].count = MaxRequests
    /\ clients[rlRet.client].burstCount = BurstCapacity

(***************************************************************************)
(* Claims about the database service (checked under SpecApp, SpecAppFair). *)
(***************************************************************************)
SameCycle(w1, w2) ==
    /\ cycleOf[w1].userId = cycleOf[w2].userId
    /\ cycleOf[w1].cycle = cycleOf[w2].cycle

\* C1: between the creation of a user's pending group and its removal the
\* backend is called at most once for that user, however many requests attach.
C1_OneBackendCallPerCycle ==
    \A k \in DOMAIN dbCalls : dbCalls[k] <= 1

\* Three requests of one user in one pending group, one of them attached while
\* the single backend call was in flight.
C1_Witness ==
    \E k \in DOMAIN pendingRequests :
        /\ Len(pendingRequests[k]) >= 3
        /\ inFlight # <<>>
        /\ inFlight[1].userId = k
        /\ dbCalls[k] = 1
        /\ \E i \in 1..Len(pendingRequests[k]) : cycleOf[pendingRequests[k][i].id].late

\* C2: the requests attached to one pending group all get the same outcome.
C2_SameOutcomePerCycle ==
    \A w1 \in DOMAIN outcome : \A w2 \in DOMAIN outcome :
        SameCycle(w1, w2) =>
            /\ outcome[w1].status = outcome[w2].status
            /\ outcome[w1].value = outcome[w2].value

\* Two requests of one cycle settled, the second one attached in flight.
C2_Witness ==
    \E w1 \in DOMAIN outcome : \E w2 \in DOMAIN outcome :
        /\ w1 # w2
        /\ SameCycle(w1, w2)
        /\ cycleOf[w2].late
        /\ outcome[w1].status # "pending"
        /\ outcome[w2].status # "pending"

\* C3: with the worker ticking and the database answering, every request that
\* reached getUserById is settled, and isProcessing returns to false.
C3_EveryFetchCompletes ==
    /\ \A w \in 1..MaxReads :
          (w \in DOMAIN outcome) ~>
             (w \in DOMAIN outcome /\ outcome[w].status # "pending")
    /\ isProcessing ~> ~isProcessing

\* A request that attached in flight is settled and the worker is idle again.
C3_Witness ==
    /\ ~isProcessing
    /\ microtasks = <<>>
    /\ \E w \in DOMAIN outcome :
          /\ cycleOf[w].late
          /\ outcome[w].status # "pending"
          /\ outcome[w].answered

\* A step in which getUserById(k) ran.
IsFetchStep(k) ==
    /\ nextJobId' = nextJobId + 1
    /\ cycleOf'[nextJobId].userId = k

\* C10: a rejected fetch leaves no pending group, no queue entry and no cache
\* entry for its user; the next fetch of that user starts a new group, queues
\* it, and every group gets its own backend call.
C10_FailedFetchNotRemembered ==
    /\ [][\A w \in DOMAIN outcome :
            (outcome[w].status = "pending" /\ outcome'[w].status = "rejected") =>
               /\ cycleOf[w].userId \notin DOMAIN pendingRequests'
               /\ ~QueueHas(processingQueue', cycleOf[w].userId)
               /\ ~MapHas(cache', CacheKeyOf(cycleOf[w].userId))]_vars
    /\ [][\A k \in UserIds :
            (/\ IsFetchStep(k)
             /\ k \notin DOMAIN pendingRequests
             /\ \E w \in DOMAIN outcome :
                   cycleOf[w].userId = k /\ outcome[w].status = "rejected") =>
               /\ pendingRequests'[k] = <<[id |-> nextJobId, userId |-> k]>>
               /\ processingQueue' =
                     Append(processingQueue, [id |-> nextJobId, userId |-> k])
               /\ cycleCount'[k] = cycleCount[k] + 1]_vars
    /\ [](\A k \in DOMAIN cycleCount :
            /\ ~MapHas(cache, CacheKeyOf(k)) \/ k \in DOMAIN mockUsers
            /\ cycleCount[k] =
                  (IF k \in DOMAIN dbCallsTotal THEN dbCallsTotal[k] ELSE 0)
                  + (IF QueueHas(processingQueue, k) THEN 1 ELSE 0))

\* A user the database does not have: fetched, rejected, fetched again with a
\* second backend call, and rejected again.
C10_Witness ==
    \E w1 \in DOMAIN outcome : \E w2 \in DOMAIN outcome :
        /\ cycleOf[w1].userId = cycleOf[w2].userId
        /\ cycleOf[w1].cycle < cycleOf[w2].cycle
        /\ outcome[w1].status = "rejected"
        /\ outcome[w2].status = "rejected"
        /\ dbCallsTotal[cycleOf[w1].userId] = 2
        /\ ~MapHas(cache, CacheKeyOf(cycleOf[w1].userId))

(***************************************************************************)
(* Claims about the queue, the pending groups and the worker (SpecApp).    *)
(***************************************************************************)
QueueKeys == {processingQueue[i].userId : i \in 1..Len(processingQueue)}
InFlightKeys == {inFlight[i].userId : i \in 1..Len(inFlight)}

C12_OneFetchInFlight ==
    /\ Len(inFlight) <= 1
    /\ inFlight # <<>> => isProcessing
    /\ microtasks # <<>> => inFlight = <<>>

\* A call is in flight while two other users wait in the queue.
C12_Witness ==
    /\ Len(inFlight) = 1
    /\ isProcessing
    /\ Len(processingQueue) >= 2

\* C13: the requests of one cycle are settled, and their handlers resumed, in
\* the order they attached (request ids grow in attachment order).
C13_WaitersCompletedInOrder ==
    /\ \A i \in 1..Len(microtasks) : \A j \in 1..Len(microtasks) :
          (/\ i < j
           /\ microtasks[i].kind = microtasks[j].kind
           /\ microtasks[i].kind # "finally"
           /\ SameCycle(microtasks[i].job.id, microtasks[j].job.id)) =>
              microtasks[i].job.id < microtasks[j].job.id
    /\ \A w1 \in DOMAIN outcome : \A w2 \in DOMAIN outcome :
          (SameCycle(w1, w2) /\ w1 < w2 /\ outcome[w2].answered) =>
              outcome[w1].answered

\* Three requests of one cycle: the first answered, the last not yet.
C13_Witness ==
    \E w1 \in DOMAIN outcome : \E w2 \in DOMAIN outcome : \E w3 \in DOMAIN outcome :
        /\ w1 < w2 /\ w2 < w3
        /\ SameCycle(w1, w2) /\ SameCycle(w2, w3)
        /\ outcome[w1].answered
        /\ ~outcome[w3].answered
        /\ outcome[w3].status # "pending"

\* C17: when one user's fetch is rejected, the queue and the pending groups of
\* the other users stay as they are and their requests stay pending; every
\* request is settled in the end, with the outcome of its own user.
C17_FailureIsPerKey ==
    /\ [][\A w \in DOMAIN outcome :
            (outcome[w].status = "pending" /\ outcome'[w].status = "rejected") =>
               /\ processingQueue' = processingQueue
               /\ \A k \in UserIds \ {cycleOf[w].userId} :
                     /\ (k \in DOMAIN pendingRequests') = (k \in DOMAIN pendingRequests)
                     /\ k \in DOMAIN pendingRequests =>
                           pendingRequests'[k] = pendingRequests[k]
               /\ \A v \in DOMAIN outcome :
                     cycleOf[v].userId # cycleOf[w].userId => outcome'[v] = outcome[v]]_vars
    /\ \A w \in 1..MaxReads :
          (w \in DOMAIN outcome) ~>
             (/\ w \in DOMAIN outcome
              /\ IF cycleOf[w].userId \in DOMAIN mockUsers
                 THEN /\ outcome[w].status = "resolved"
                      /\ outcome[w].value = mockUsers[cycleOf[w].userId]
                 ELSE /\ outcome[w].status = "rejected"
                      /\ outcome[w].value = NotFoundError(cycleOf[w].userId))

\* A fetch was just rejected while another user waits in the queue with its
\* pending group.
C17_Witness ==
    /\ microtasks # <<>>
    /\ Head(microtasks).kind = "settled"
    /\ outcome[Head(microtasks).job.id].status = "rejected"
    /\ processingQueue # <<>>
    /\ Head(processingQueue).userId \in DOMAIN mockUsers
    /\ Head(processingQueue).userId \in DOMAIN pendingRequests

(***************************************************************************)
(* Claims about clear(), currentSize and has() (checked under SpecCache).  *)
(***************************************************************************)
ZeroStats == [hits |-> 0, misses |-> 0, currentSize |-> 0, totalRequests |-> 0]

\* C14: after clear() the cache holds nothing and getStats() reports hits,
\* misses, currentSize and totalRequests as 0, whatever came before; a second
\* clear() right after it leaves cache and statistics as they are.
C14_ClearResetsAll ==
    /\ [](cacheRet.op = "clear" => (cache = <<>> /\ stats = ZeroStats))
    /\ [][(cacheRet.op = "clear" /\ cacheRet'.op = "clear" /\ now' = now) =>
             (cache' = cache /\ stats' = stats)]_vars

\* clear() has just emptied a cache that held two entries.
C14_Witness ==
    /\ cacheRet.op = "clear"
    /\ Len(cacheRet.evicted) >= 2
    /\ cache = <<>>
    /\ stats = ZeroStats

\* The entries get() would still report as hits at this instant.
LiveCount == Cardinality({i \in 1..Len(cache) : now - cache[i].timestamp <= Ttl})

\* C15 as stated: currentSize is the number of entries that are neither
\* evicted nor expired, also between an entry's expiry and its removal.
C15_SizeIsLiveCount == stats.currentSize = LiveCount

\* C15 as the code has it: currentSize is the number of entries the map
\* holds, the expired ones included until a get, has or sweep removes them,
\* so it is never below the number of live entries.
C15_SizeIsHeldCount ==
    /\ stats.currentSize = Len(cache)
    /\ stats.currentSize >= LiveCount

\* One entry has expired and no get, has or sweep has met it yet: it is held
\* and counted next to a live one.
C15_Witness ==
    /\ Len(cache) = 2
    /\ LiveCount = 1
    /\ stats.currentSize = 2

\* A step in which has(k) ran.
IsHasStep(k) ==
    /\ cacheRet'.op = "has"
    /\ cacheRet'.key = k
    /\ now' = now
    /\ cacheRet' # cacheRet \/ cache' # cache

\* get(k) at this instant would be a hit.
WouldHit(k) == MapHas(cache, k) /\ now - MapGet(cache, k).timestamp <= Ttl

\* C16 as stated: has(k) is true exactly when get(k) would hit, and changes
\* neither the statistics nor any entry, for an absent, live or expired key.
C16_HasChangesNothing ==
    [][\A k \in CacheKeys :
         IsHasStep(k) =>
            /\ (cacheRet'.ret = "true") = WouldHit(k)
            /\ stats' = stats
            /\ cache' = cache]_vars

\* C16 as the code has it: has(k) is true exactly when get(k) would hit and
\* never changes hits, misses, totalRequests, the order or lastAccessed and
\* accessCount of an entry; for an absent or live key it changes nothing,
\* for an expired key it removes that entry and takes one off currentSize.
C16_HasRemovesOnlyExpired ==
    [][\A k \in CacheKeys :
         IsHasStep(k) =>
            /\ (cacheRet'.ret = "true") = WouldHit(k)
            /\ stats'.hits = stats.hits
            /\ stats'.misses = stats.misses
            /\ stats'.totalRequests = stats.totalRequests
            /\ IF MapHas(cache, k) /\ ~WouldHit(k)
               THEN /\ cache' = MapDelete(cache, k)
                    /\ stats'.currentSize = stats.currentSize - 1
               ELSE /\ cache' = cache
                    /\ stats'.currentSize = stats.currentSize]_vars

\* has() has answered false for an expired entry and removed it; a live
\* entry stays, and the statistics of the earlier gets are as they were.
C16_Witness ==
    /\ cacheRet.op = "has"
    /\ cacheRet.ret = "false"
    /\ cacheRet.evicted = <<cacheRet.key>>
    /\ Len(cache) = 1
    /\ WouldHit(cache[1].key)
    /\ stats.currentSize = 1
    /\ stats.hits = 1
    /\ stats.totalRequests = 2

(***************************************************************************)
(* Claims about the limiter in front of the routes (SpecServer).           *)
(***************************************************************************)
\* C18: a request the limiter answers with 429 ends there: no cache get or
\* set, no getUserById, for GET /users/:id and for DELETE /cache alike.
C18_DeniedRequestStopsAtLimiter ==
    [][\A c \in ClientIds :
         (IsRequestStep(c) /\ rlRet'.status = 429) =>
            /\ cache' = cache
            /\ stats' = stats
            /\ cacheRet' = cacheRet
            /\ processingQueue' = processingQueue
            /\ pendingRequests' = pendingRequests
            /\ nextJobId' = nextJobId
            /\ outcome' = outcome
            /\ dbCallsTotal' = dbCallsTotal]_vars

\* A request was denied while a fetch was in flight and an entry was cached;
\* the five requests let through are all the cache and the database saw.
C18_Witness ==
    /\ rlRet.status = 429
    /\ rlRet.nth >= BurstCapacity + 2
    /\ inFlight # <<>>
    /\ cache # <<>>
    /\ nextJobId + stats.hits <= BurstCapacity + 1

(***************************************************************************)
(* Claims about reads served from the cache (SpecApp).                     *)
(***************************************************************************)
\* A step in which the handler of GET /users/:id ran for userId.
IsReadStep(userId) ==
    /\ stats'.totalRequests = stats.totalRequests + 1
    /\ cacheRet'.op = "get"
    /\ cacheRet'.key = CacheKeyOf(userId)

\* C19: a read of a user whose entry is in the cache and not expired is
\* answered with the cached value and neither queues a job nor joins a
\* group nor leads to a database call; and the handler of a read the
\* database answered stores the user, so that the reads that follow within
\* the ttl find the entry unless it is cleared or evicted.
C19_CachedReadSkipsBackend ==
    /\ [][\A userId \in UserIds :
            (IsReadStep(userId) /\ WouldHit(CacheKeyOf(userId))) =>
               /\ cacheRet'.ret = MapGet(cache, CacheKeyOf(userId)).value
               /\ stats'.hits = stats.hits + 1
               /\ processingQueue' = processingQueue
               /\ pendingRequests' = pendingRequests
               /\ inFlight' = inFlight
               /\ microtasks' = microtasks
               /\ nextJobId' = nextJobId
               /\ outcome' = outcome
               /\ dbCalls' = dbCalls
               /\ dbCallsTotal' = dbCallsTotal]_vars
    /\ [][\A w \in DOMAIN outcome :
            (/\ ~outcome[w].answered
             /\ outcome'[w].answered
             /\ outcome[w].status = "resolved") =>
               /\ MapHas(cache', CacheKeyOf(cycleOf[w].userId))
               /\ MapGet(cache', CacheKeyOf(cycleOf[w].userId)).timestamp = now
               /\ MapGet(cache', CacheKeyOf(cycleOf[w].userId)).value = outcome[w].value]_vars

\* After one fetch of a user, two more reads were answered from the cache:
\* still one database call, nothing queued or pending.
C19_Witness ==
    /\ cacheRet.op = "get"
    /\ cacheRet.ret # Null
    /\ stats.hits = 2
    /\ \E userId \in UserIds :
          /\ cacheRet.key = CacheKeyOf(userId)
          /\ dbCallsTotal[userId] = 1
          /\ MapGet(cache, cacheRet.key).accessCount = 3
    /\ processingQueue = <<>>
    /\ pendingRequests = <<>>
    /\ nextJobId = 2

(***************************************************************************)
(* Claims about retrying after a denial (SpecRL).                          *)
(***************************************************************************)
Gates == {"burst", "window"}

\* This request of c is denied by gate g.
DeniedBy(c, g) == rlRet'.client = c /\ rlRet'.status = 429 /\ rlRet'.scope = g

\* C20 as stated: every 429 carries retryAfter >= 1, and every request of the
\* client made retryAfter seconds or more after a 429 is not denied by the
\* gate that sent it.
C20_LaterCheckPasses ==
    /\ [](rlRet.status = 429 => rlRet.retryAfter >= 1)
    /\ [][\A c \in ClientIds : \A g \in Gates :
            (/\ IsRequestStep(c)
             /\ <<c, g>> \in DOMAIN denied
             /\ now >= denied[<<c, g>>].timestamp + 1000 * denied[<<c, g>>].retryAfter) =>
                ~DeniedBy(c, g)]_vars

\* C20 as the code has it: every 429 carries retryAfter >= 1, and a request
\* of the client made retryAfter seconds or more after a 429 is not denied by
\* the gate that sent it, unless the limiter let a request of that client
\* pass in between.
C20_RetryPasses ==
    /\ [](rlRet.status = 429 => rlRet.retryAfter >= 1)
    /\ [][\A c \in ClientIds : \A g \in Gates :
            (/\ IsRequestStep(c)
             /\ <<c, g>> \in DOMAIN denied
             /\ ~denied[<<c, g>>].passedSince
             /\ now >= denied[<<c, g>>].timestamp + 1000 * denied[<<c, g>>].retryAfter) =>
                ~DeniedBy(c, g)]_vars

\* The window gate denied the client, which came back after retryAfter
\* seconds and was let through by a limiter that still knew it.
C20_Witness ==
    \E c \in ClientIds :
        /\ <<c, "window">> \in DOMAIN denied
        /\ denied[<<c, "window">>].passedSince
        /\ rlRet.client = c
        /\ rlRet.status = 200
        /\ rlRet.nth = 1
        /\ rlRet.timestamp =
              denied[<<c, "window">>].timestamp + 1000 * denied[<<c, "window">>].retryAfter
        /\ clients[c].count = 1

(***************************************************************************)
(* Claims about the two gates of one request (SpecRL).                     *)
(***************************************************************************)
\* The counters and reset times of c as a request finds them once it has
\* created the state of a new client and reset the windows that ran out.
CountAfterResets(c) ==
    IF c \notin DOMAIN clients \/ now >= clients[c].resetTime
    THEN 0 ELSE clients[c].count
BurstCountAfterResets(c) ==
    IF c \notin DOMAIN clients \/ now >= clients[c].burstResetTime
    THEN 0 ELSE clients[c].burstCount
BurstResetAfterResets(c) ==
    IF c \notin DOMAIN clients \/ now >= clients[c].burstResetTime
    THEN now + BurstWindowMs ELSE clients[c].burstResetTime

\* C21: a request that finds both gates exhausted after its resets is denied
\* with scope burst, and its retryAfter, limit and resetTime are those of the
\* burst window.
C21_BurstAnswersWhenBothExhausted ==
    [][\A c \in ClientIds :
         (/\ IsRequestStep(c)
          /\ BurstCountAfterResets(c) >= BurstCapacity
          /\ CountAfterResets(c) >= MaxRequests) =>
            /\ rlRet'.status = 429
            /\ rlRet'.scope = "burst"
            /\ rlRet'.limit = BurstCapacity
            /\ rlRet'.resetTime = BurstResetAfterResets(c)
            /\ 1000 * rlRet'.retryAfter >= BurstResetAfterResets(c) - now
            /\ 1000 * rlRet'.retryAfter < BurstResetAfterResets(c) - now + 1000]_vars

\* Both gates exhausted, the burst window ending 40 s before the long one:
\* the denial names the burst window and its 10 s.
C21_Witness ==
    /\ rlRet.status = 429
    /\ rlRet.scope = "burst"
    /\ rlRet.timestamp = now
    /\ rlRet.client \in DOMAIN clients
    /\ clients[rlRet.client].count = MaxRequests
    /\ clients[rlRet.client].burstCount = BurstCapacity
    /\ rlRet.resetTime = clients[rlRet.client].burstResetTime
    /\ rlRet.resetTime < clients[rlRet.client].resetTime
    /\ rlRet.retryAfter = 10

\* C22 as stated: an allowed request leaves each stored counter one higher
\* than it found it, a denied request leaves both stored counters as it
\* found them.
C22_CountersMoveOnlyOnAllow ==
    [][\A c \in ClientIds :
         IsRequestStep(c) =>
            LET count == IF c \in DOMAIN clients THEN clients[c].count ELSE 0
                burst == IF c \in DOMAIN clients THEN clients[c].burstCount ELSE 0
            IN  /\ rlRet'.status = 200 =>
                      /\ clients'[c].count = count + 1
                      /\ clients'[c].burstCount = burst + 1
                /\ rlRet'.status = 429 =>
                      /\ clients'[c].count = count
                      /\ clients'[c].burstCount = burst]_vars

\* C22 as the code has it: counted from the values the counters have after
\* the request has reset the windows that ran out, an allowed request adds
\* exactly one to both and a denied request adds nothing to either.
C22_CountersMoveOnlyOnAllowAfterResets ==
    [][\A c \in ClientIds :
         IsRequestStep(c) =>
            /\ rlRet'.status \in {200, 429}
            /\ rlRet'.status = 200 =>
                  /\ clients'[c].count = CountAfterResets(c) + 1
                  /\ clients'[c].burstCount = BurstCountAfterResets(c) + 1
            /\ rlRet'.status = 429 =>
                  /\ clients'[c].count = CountAfterResets(c)
                  /\ clients'[c].burstCount = BurstCountAfterResets(c)]_vars

\* A request denied by the burst gate at the moment the long window ran out:
\* the long window restarted at 0 and the denial added nothing.
C22_Witness ==
    /\ rlRet.status = 429
    /\ rlRet.scope = "burst"
    /\ rlRet.timestamp = now
    /\ rlRet.client \in DOMAIN clients
    /\ clients[rlRet.client].count = 0
    /\ clients[rlRet.client].resetTime = now + WindowMs
    /\ clients[rlRet.client].burstCount = BurstCapacity

(***************************************************************************)
(* Claims about the effects of get, set and the sweep (SpecCache).         *)
(***************************************************************************)
\* The age of an entry now.
Age(e) == now - e.timestamp

C24_ExpiredGetEvicts ==
    [][\A k \in CacheKeys :
         /\ (IsGetStep(k) /\ MapHas(cache, k) /\ Age(MapGet(cache, k)) > Ttl) =>
               /\ cache' = MapDelete(cache, k)
               /\ ~MapHas(cache', k)
               /\ cacheRet'.ret = Null
               /\ stats' = [stats EXCEPT !.misses = @ + 1, !.totalRequests = @ + 1,
                                         !.currentSize = @ - 1]
         /\ (IsGetStep(k) /\ ~MapHas(cache, k)) =>
               /\ cache' = cache
               /\ cacheRet'.ret = Null
               /\ stats' = [stats EXCEPT !.misses = @ + 1,
                                         !.totalRequests = @ + 1]]_vars

\* Two gets of an expired key: the first removed the entry, the second found
\* none; another entry is still held.
C24_Witness ==
    /\ cacheRet.op = "get"
    /\ cacheRet.ret = Null
    /\ cacheRet.evicted = NoKeys
    /\ stats.misses = 2
    /\ stats.totalRequests = 2
    /\ stats.currentSize = 1
    /\ Len(cache) = 1
    /\ Age(cache[1]) > Ttl
    /\ cache[1].key # cacheRet.key

\* A step in which set(k, _) ran for a key the map holds.
IsSetExistingStep(k) ==
    /\ cacheRet'.op = "set"
    /\ cacheRet'.key = k
    /\ now' = now
    /\ MapHas(cache, k)
    /\ cacheRet' # cacheRet \/ cache' # cache

\* C25: set on a key the map holds stores the new value with timestamp now
\* at the end of the map, removes no other entry, also at maxSize, and leaves
\* currentSize and the other statistics.
C25_OverwriteKeepsOthers ==
    [][\A k \in CacheKeys :
         IsSetExistingStep(k) =>
            LET new == cache'[Len(cache')]
            IN  /\ Len(cache') = Len(cache)
                /\ new.key = k
                /\ new.value = cacheRet'.value
                /\ new.timestamp = now
                /\ MapDelete(cache', k) = MapDelete(cache, k)
                /\ cacheRet'.evicted = NoKeys
                /\ stats' = stats]_vars

\* A full map whose oldest key was overwritten with another value at a later
\* time: it is the last entry now and the other entry is still there.
C25_Witness ==
    /\ cacheRet.op = "set"
    /\ cacheRet.evicted = NoKeys
    /\ Len(cache) = MaxSize
    /\ cache[Len(cache)].key = cacheRet.key
    /\ cache[Len(cache)].value = cacheRet.value
    /\ cache[Len(cache)].timestamp = now
    /\ cache[1].timestamp < now
    /\ cache[1].lastAccessed < now
    /\ stats.currentSize = MaxSize

\* A step in which the periodic cleanupExpired ran.
IsSweepStep ==
    /\ cacheRet'.op = "sweep"
    /\ now' = now
    /\ cacheRet' # cacheRet \/ cache' # cache

\* C26: the sweep removes exactly the entries older than the ttl, keeps the
\* others in their order, takes the number of removed entries off
\* currentSize and leaves hits, misses and totalRequests.
C26_SweepRemovesExpiredOnly ==
    [][IsSweepStep =>
         /\ cache' = SelectSeq(cache, LAMBDA e : Age(e) <= Ttl)
         /\ \A i \in 1..Len(cache') : Age(cache'[i]) <= Ttl
         /\ stats' = [stats EXCEPT !.currentSize = @ - (Len(cache) - Len(cache'))]]_vars

\* A sweep has removed one entry and kept one that is exactly ttl old.
C26_Witness ==
    /\ cacheRet.op = "sweep"
    /\ Len(cacheRet.evicted) = 1
    /\ Len(cache) = 1
    /\ Age(cache[1]) = Ttl
    /\ stats.currentSize = 1

(***************************************************************************)
(* Claims about the limiter's sweep (SpecRL).                              *)
(***************************************************************************)
\* Both windows of c have run out.
BothWindowsOver(c) == clients[c].resetTime <= now /\ clients[c].burstResetTime <= now

\* C27: the sweep would discard, in every state, exactly the clients whose
\* two reset times are at or before now; a step that discards a client
\* discards all of those and no client with a window still running; and a
\* request discards no client.
C27_SweepDiscardsIdleClientsOnly ==
    /\ [](\A c \in DOMAIN clients :
            (c \in PastBothResets(clients, now)) = BothWindowsOver(c))
    /\ [][\A c \in DOMAIN clients :
            c \notin DOMAIN clients' =>
               /\ BothWindowsOver(c)
               /\ rlRet' = rlRet
               /\ DOMAIN clients' = {d \in DOMAIN clients : ~BothWindowsOver(d)}]_vars
    /\ [][\A c \in ClientIds :
            IsRequestStep(c) => DOMAIN clients \subseteq DOMAIN clients']_vars

\* The sweep has discarded the client of the last request, whose burst
\* window ended long before its long window.
C27_Witness ==
    /\ rlRet.status = 200
    /\ rlRet.client \notin DOMAIN clients
    /\ now >= rlRet.resetTime
    /\ rlRet.timestamp + BurstWindowMs < rlRet.resetTime

C29_KeyQueuedOnce ==
    /\ [](/\ \A i \in 1..Len(processingQueue) : \A j \in 1..Len(processingQueue) :
                processingQueue[i].userId = processingQueue[j].userId => i = j
          /\ \A k \in DOMAIN pendingRequests :
                \A i \in 1..Len(pendingRequests[k]) : pendingRequests[k][i].userId = k)
    /\ [][\A k \in UserIds :
            (IsFetchStep(k) /\ k \in DOMAIN pendingRequests) =>
               /\ processingQueue' = processingQueue
               /\ DOMAIN pendingRequests' = DOMAIN pendingRequests
               /\ pendingRequests' =
                     [pendingRequests EXCEPT
                         ![k] = Append(@, [id |-> nextJobId, userId |-> k])]]_vars

\* Three requests wait in the group of a user that is queued once, behind
\* another user.
C29_Witness ==
    \E k \in DOMAIN pendingRequests :
        /\ Len(pendingRequests[k]) >= 3
        /\ Len(processingQueue) = 2
        /\ processingQueue[2].userId = k
        /\ inFlight = <<>>

\* C30: the worker starts the database call of the oldest pending group: when
\* a call starts no other call is in flight, every job still queued and
\* every pending group was created after the job that starts (request ids
\* grow in creation order), and the queue is always in creation order.
C30_BackendCallsInCycleOrder ==
    /\ [](\A i \in 1..Len(processingQueue) : \A j \in 1..Len(processingQueue) :
            i < j => processingQueue[i].id < processingQueue[j].id)
    /\ [][Len(inFlight') > Len(inFlight) =>
            LET job == inFlight'[Len(inFlight')]
            IN  /\ inFlight = <<>>
                /\ \A i \in 1..Len(processingQueue') : processingQueue'[i].id > job.id
                /\ \A k \in DOMAIN pendingRequests :
                      Head(pendingRequests[k]).id >= job.id]_vars

\* The call of the group created first is in flight, the groups of two other
\* users, created after it, wait in the queue in that order.
C30_Witness ==
    /\ Len(inFlight) = 1
    /\ Len(processingQueue) = 2
    /\ inFlight[1].id < processingQueue[1].id
    /\ processingQueue[1].id < processingQueue[2].id
    /\ dbCallsTotal[inFlight[1].userId] = 1
    /\ processingQueue[1].userId \notin DOMAIN dbCallsTotal
    /\ processingQueue[2].userId \notin DOMAIN dbCallsTotal

(***************************************************************************)
(* Claims about the cache's counters (SpecCache).                          *)
(***************************************************************************)
\* C31: hits + misses = totalRequests in every state: a get adds one to
\* totalRequests and to one of hits and misses, every other call changes
\* none of the three or sets all three to 0.
C31_HitsPlusMissesIsTotal ==
    /\ [](stats.hits + stats.misses = stats.totalRequests)
    /\ [][\/ /\ stats'.totalRequests = stats.totalRequests + 1
             /\ cacheRet'.op = "get"
             /\ \/ stats'.hits = stats.hits + 1 /\ stats'.misses = stats.misses
                \/ stats'.hits = stats.hits /\ stats'.misses = stats.misses + 1
          \/ /\ stats'.totalRequests = stats.totalRequests
             /\ stats'.hits = stats.hits
             /\ stats'.misses = stats.misses
          \/ /\ cacheRet'.op = "clear"
             /\ stats'.totalRequests = 0
             /\ stats'.hits = 0
             /\ stats'.misses = 0]_vars

\* One hit and one miss counted, and a has() that removed an expired entry
\* after them.
C31_Witness ==
    /\ stats.hits = 1
    /\ stats.misses = 1
    /\ stats.totalRequests = 2
    /\ cacheRet.op = "has"
    /\ cacheRet.evicted # NoKeys

\* C32: currentSize is the size of the map in every state, expired entries
\* included, so it is never negative; every call changes it by as much as
\* it changes the size of the map.
C32_SizeTracksMap ==
    /\ [](stats.currentSize = Len(cache) /\ stats.currentSize >= 0)
    /\ [][stats'.currentSize - stats.currentSize = Len(cache') - Len(cache)]_vars

\* A delete of a key the map does not hold, while it holds only expired
\* entries: they are still counted.
C32_Witness ==
    /\ cacheRet.op = "delete"
    /\ cacheRet.ret = "false"
    /\ Len(cache) = 2
    /\ LiveCount = 0
    /\ stats.currentSize = 2

(***************************************************************************)
(* Claims about getQueueStats (SpecApp).                                   *)
(***************************************************************************)
\* C35: in every state queueLength <= pendingRequestGroups <= queueLength + 1,
\* the two differ only while isProcessing is set, and totalPendingRequests
\* >= pendingRequestGroups.
C35_QueueStatsConsistent ==
    /\ QueueStats.queueLength <= QueueStats.pendingRequestGroups
    /\ QueueStats.pendingRequestGroups <= QueueStats.queueLength + 1
    /\ QueueStats.pendingRequestGroups > QueueStats.queueLength =>
          QueueStats.isProcessing
    /\ QueueStats.totalPendingRequests >= QueueStats.pendingRequestGroups

\* The worker is busy with one of three pending groups, and four requests
\* wait in all.
C35_Witness ==
    /\ QueueStats.isProcessing
    /\ QueueStats.queueLength = 2
    /\ QueueStats.pendingRequestGroups = 3
    /\ QueueStats.totalPendingRequests = 4

(***************************************************************************)
(* Claims about what the limiter's sweep and other clients change.         *)
(***************************************************************************)
\* What a response tells the client.
Answer(r) ==
    [status |-> r.status, retryAfter |-> r.retryAfter, limit |-> r.limit,
     remaining |-> r.remaining, resetTime |-> r.resetTime]

\* C33: every request gets the response the limiter would give had no sweep
\* ever run (status, scope through limit, retryAfter, remaining, resetTime);
\* the swept map differs from the unswept one only in lacking clients whose
\* two windows are over (SpecRL).
C33_SweepUnobservable ==
    /\ [](\A c \in DOMAIN unswept :
            IF c \in DOMAIN clients
            THEN clients[c] = unswept[c]
            ELSE unswept[c].resetTime <= now /\ unswept[c].burstResetTime <= now)
    /\ [](DOMAIN clients \subseteq DOMAIN unswept)
    /\ [][\A c \in ClientIds :
            IsRequestStep(c) =>
               /\ Answer(rlRet') = Answer(Checked(unswept, c, now))
               /\ rlRet'.scope = (IF Checked(unswept, c, now).verdict = "allow"
                                  THEN "none" ELSE Checked(unswept, c, now).verdict)
               /\ clients'[c] = unswept'[c]]_vars

\* A client that had been denied by the long window was discarded by the
\* sweep and then came back: the limiter did not know it and let it pass.
C33_Witness ==
    /\ rlRet.status = 200
    /\ ~rlRet.known
    /\ rlRet.timestamp = now
    /\ <<rlRet.client, "window">> \in DOMAIN denied
    /\ denied[<<rlRet.client, "window">>].passedSince
    /\ rlRet.remaining = MaxRequests - 1

\* The map cl with the state of client c only.
OnlyClient(cl, c) == [x \in DOMAIN cl \cap {c} |-> cl[x]]

\* C34: a request of client a is answered from a's state alone and changes
\* a's state alone; a client is denied only when one of its own counters is
\* at its limit (SpecPair).
C34_PerClient ==
    /\ [][\A a \in ClientPair :
            IsRequestStep(a) =>
               /\ rlRet'.client = a
               /\ Answer(rlRet') = Answer(Checked(OnlyClient(clients, a), a, now))
               /\ clients'[a] = Checked(OnlyClient(clients, a), a, now).info
               /\ \A b \in ClientPair \ {a} :
                     /\ (b \in DOMAIN clients') = (b \in DOMAIN clients)
                     /\ b \in DOMAIN clients => clients'[b] = clients[b]]_vars
    /\ [](rlRet.status = 429 =>
            \/ clients[rlRet.client].burstCount >= BurstCapacity
            \/ clients[rlRet.client].count >= MaxRequests)

\* One client has used up both its windows and was denied; the other one's
\* first request passes with the whole quota but one left.
C34_Witness ==
    \E a \in ClientPair : \E b \in ClientPair \ {a} :
        /\ <<a, "burst">> \in DOMAIN denied
        /\ ~denied[<<a, "burst">>].passedSince
        /\ clients[a].count = MaxRequests
        /\ clients[a].burstCount = BurstCapacity
        /\ rlRet.client = b
        /\ rlRet.status = 200
        /\ rlRet.remaining = MaxRequests - 1
        /\ rlRet.timestamp = now

====
